---- MODULE Spec2Model ----
\* Model of the file-attachment resolution layer of frankenstein:
\* src/src/input_file.rs (InputFile, FileUpload, HasInputFile) and the
\* file-bearing operations of the TelegramApi trait in src/src/trait_sync.rs.
EXTENDS Integers, Sequences, FiniteSets, TLC

\* ---------------------------------------------------------------- bounds
MaxMedia == 2       \* longest media sequence given to send_media_group
MaxStickers == 3    \* longest sticker sequence given to create_new_sticker_set
MaxIndex == 11      \* largest value the index closure of replace_attach_dyn returns

\* ------------------------------------------------------------ data model
\* enum InputFile { Path(PathBuf), Memory { file_name, data } }
Path(p) == [variant |-> "Path", path |-> p]
Memory(file_name, data) == [variant |-> "Memory", file_name |-> file_name, data |-> data]

\* enum FileUpload { String(String), InputFile(InputFile) }
String(s) == [variant |-> "String", s |-> s]
InputFile(f) == [variant |-> "InputFile", file |-> f]

\* Option<T>
None == [variant |-> "None"]
Some(v) == [variant |-> "Some", value |-> v]

\* The files and reference strings the callers build their parameters from.
InputFiles == {Path("/tmp/a.png"), Memory("demo.bin", <<1, 2, 3>>)}
RefStrings == {"file_id_123", "attach://file0"}
FileUploads == {String(s) : s \in RefStrings} \cup {InputFile(f) : f \in InputFiles}
CoverValues == {None, Some(String("file_id_123")), Some(InputFile(Memory("cover.jpg", <<7>>)))}
ThumbnailValues == {None, Some(String("file_id_123")), Some(InputFile(Memory("thumb.jpg", <<>>)))}
OptFileUploads == CoverValues \cup ThumbnailValues
AttachNames == {"payload", "demo", "photo"}

\* ------------------------------------------------------ string formatting
Digits == <<"0", "1", "2", "3", "4", "5", "6", "7", "8", "9">>

\* Display for usize, as used by format!("file{}", index())
RECURSIVE UsizeToString(_)
UsizeToString(n) ==
    IF n < 10 THEN Digits[n + 1]
    ELSE UsizeToString(n \div 10) \o Digits[(n % 10) + 1]

\* format!("attach://{name}")
AttachToken(name) == "attach://" \o name

\* format!("file{}", index())
FileName(index) == "file" \o UsizeToString(index)

\* ---------------------------------------------------------- HasInputFile
\* Every operator returns the value left in the field (self), the returned
\* Option, and how many times the index closure was invoked.

\* Variant of FileUpload::replace_attach that hands out the file but leaves
\* the field as it was (a clone instead of mem::replace).
FileUpload_replace_attach_keeps_field(self, name) ==
    IF self.variant = "InputFile"
    THEN [self |-> self, ret |-> Some(self.file), index_calls |-> 0]
    ELSE [self |-> self, ret |-> None, index_calls |-> 0]

\* impl HasInputFile for FileUpload
FileUpload_replace_attach(self, name) ==
    IF self.variant = "InputFile"
    THEN [self |-> String(AttachToken(name)), ret |-> Some(self.file), index_calls |-> 0]
    ELSE [self |-> self, ret |-> None, index_calls |-> 0]

\* Variant of FileUpload::replace_attach_dyn that rewrites the field before
\* it looks at the variant.
FileUpload_replace_attach_dyn_rewrites_strings(self, index) ==
    IF self.variant = "InputFile"
    THEN LET name == FileName(index)
         IN [self |-> String(AttachToken(name)),
             ret |-> Some(<<name, self.file>>), index_calls |-> 1]
    ELSE [self |-> String(AttachToken(self.s)), ret |-> None, index_calls |-> 0]

FileUpload_replace_attach_dyn(self, index) ==
    IF self.variant = "InputFile"
    THEN LET name == FileName(index)
         IN [self |-> String(AttachToken(name)),
             ret |-> Some(<<name, self.file>>), index_calls |-> 1]
    ELSE [self |-> self, ret |-> None, index_calls |-> 0]

\* impl HasInputFile for Option<FileUpload>
IsSomeInputFile(self) ==
    self.variant = "Some" /\ self.value.variant = "InputFile"

Option_replace_attach(self, name) ==
    IF IsSomeInputFile(self)
    THEN [self |-> Some(String(AttachToken(name))), ret |-> Some(self.value.file),
          index_calls |-> 0]
    ELSE [self |-> self, ret |-> None, index_calls |-> 0]

\* Variant of Option<FileUpload>::replace_attach_dyn that evaluates index()
\* before the match.
Option_replace_attach_dyn_eager_index(self, index) ==
    IF IsSomeInputFile(self)
    THEN LET name == FileName(index)
         IN [self |-> Some(String(AttachToken(name))),
             ret |-> Some(<<name, self.value.file>>), index_calls |-> 1]
    ELSE [self |-> self, ret |-> None, index_calls |-> 1]

Option_replace_attach_dyn(self, index) ==
    IF IsSomeInputFile(self)
    THEN LET name == FileName(index)
         IN [self |-> Some(String(AttachToken(name))),
             ret |-> Some(<<name, self.value.file>>), index_calls |-> 1]
    ELSE [self |-> self, ret |-> None, index_calls |-> 0]

\* Static dispatch on the type of the field.
IsOption(self) == self.variant \in {"None", "Some"}

replace_attach(self, name) ==
    IF IsOption(self) THEN Option_replace_attach(self, name)
    ELSE FileUpload_replace_attach(self, name)

replace_attach_dyn(self, index) ==
    IF IsOption(self) THEN Option_replace_attach_dyn(self, index)
    ELSE FileUpload_replace_attach_dyn(self, index)

\* ---------------------------------------------------------- serialization
\* JSON values.
JsonNull == [json |-> "null"]
JsonString(s) == [json |-> "string", s |-> s]

\* Variant of Serialize for InputFile that writes the path, or the file name,
\* as a string.
InputFile_serialize_writes_name(f) ==
    IF f.variant = "Path" THEN JsonString(f.path) ELSE JsonString(f.file_name)

\* Serialize for InputFile: serialize_none
InputFile_serialize(f) == JsonNull

\* derive(Serialize), untagged, for FileUpload
FileUpload_serialize(v) ==
    IF v.variant = "String" THEN JsonString(v.s) ELSE InputFile_serialize(v.file)

\* The JSON value of a file field of any of the three field types.
FieldJson(v) ==
    CASE v.variant = "None" -> JsonNull
      [] v.variant = "Some" -> FileUpload_serialize(v.value)
      [] v.variant \in {"String", "InputFile"} -> FileUpload_serialize(v)
      [] OTHER -> InputFile_serialize(v)

\* The values handed to a serializer directly.
SerializedFiles ==
    {Path(p) : p \in {"/tmp/a.png", "b.txt"}}
    \cup {Memory(n, d) : n \in {"demo.bin", "thumb.jpg"},
                         d \in {<<>>, <<1, 2, 3>>, <<0, 1, 2, 3>>}}
SerializedValues ==
    SerializedFiles \cup {InputFile(f) : f \in SerializedFiles}
    \cup {String(s) : s \in RefStrings}

\* ------------------------------------------------------------- transport
\* The two abstract methods of the trait; a call is recorded as what it was
\* given.
request(method, params) ==
    [fn |-> "request", method |-> method, params |-> params]

request_with_form_data(method, params, files) ==
    [fn |-> "request_with_form_data", method |-> method, params |-> params,
     files |-> files]

\* Variant of request_with_possible_form_data with the test inverted.
request_with_possible_form_data_inverted(method_name, params, files) ==
    IF files # <<>>
    THEN <<request(method_name, Some(params))>>
    ELSE <<request_with_form_data(method_name, params, files)>>

\* The transport calls request_with_possible_form_data makes, in order.
request_with_possible_form_data(method_name, params, files) ==
    IF files = <<>>
    THEN <<request(method_name, Some(params))>>
    ELSE <<request_with_form_data(method_name, params, files)>>

\* -------------------------------------------------- parameter structures
\* Only the file-bearing fields of the parameter structures are modelled; the
\* other fields are never read or written by the operations.
SeqsUpTo(S, n) == UNION {[1..k -> S] : k \in 0..n}

\* cover and thumbnail are Option<FileUpload>; every other file field is
\* FileUpload.
FieldValues(f) ==
    CASE f = "cover" -> CoverValues
      [] f = "thumbnail" -> ThumbnailValues
      [] OTHER -> FileUploads

\* The methods generated by request_f!, with their file properties in order.
RequestFMethods ==
    { [name |-> "sendPhoto", fields |-> <<"photo">>],
      [name |-> "sendAudio", fields |-> <<"audio", "thumbnail">>],
      [name |-> "sendDocument", fields |-> <<"document", "thumbnail">>],
      [name |-> "sendVideo", fields |-> <<"video", "cover", "thumbnail">>],
      [name |-> "sendAnimation", fields |-> <<"animation", "thumbnail">>],
      [name |-> "sendVoice", fields |-> <<"voice">>],
      [name |-> "sendVideoNote", fields |-> <<"video_note", "thumbnail">>],
      [name |-> "sendSticker", fields |-> <<"sticker">>],
      [name |-> "setStickerSetThumbnail", fields |-> <<"thumbnail">>] }

FlatParams(fields) ==
    { p \in [{fields[i] : i \in 1..Len(fields)} -> FileUploads \cup OptFileUploads] :
        \A f \in DOMAIN p : p[f] \in FieldValues(f) }

\* MediaGroupInputMedia: Audio | Document | Photo | Video
MediaGroupInputMedia ==
    [kind : {"Audio"}, media : FileUploads, thumbnail : ThumbnailValues]
    \cup [kind : {"Document"}, media : FileUploads]
    \cup [kind : {"Photo"}, media : FileUploads]
    \cup [kind : {"Video"}, media : FileUploads, cover : CoverValues,
          thumbnail : ThumbnailValues]

\* InputMedia: Animation | Document | Audio | Photo | Video
InputMedia ==
    [kind : {"Animation", "Document", "Audio"}, media : FileUploads,
     thumbnail : ThumbnailValues]
    \cup [kind : {"Photo"}, media : FileUploads]
    \cup [kind : {"Video"}, media : FileUploads, cover : CoverValues,
          thumbnail : ThumbnailValues]

\* InputStoryContent: Photo | Video
InputStoryContent ==
    [kind : {"Photo"}, photo : FileUploads] \cup [kind : {"Video"}, video : FileUploads]

\* InputProfilePhoto: Static | Animated
InputProfilePhoto ==
    [kind : {"Static"}, photo : FileUploads]
    \cup [kind : {"Animated"}, animation : FileUploads]

InputSticker == [sticker : FileUploads]

\* ------------------------------------------------------------ operations
\* Each operation returns its locals params and files as they are when it
\* calls the transport, and the transport calls it makes.
Handler(params, files, calls) == [params |-> params, files |-> files, calls |-> calls]

\* Variant of the repetition of request_f! that stops at the first property
\* yielding no file.
RECURSIVE request_f_properties_stops_at_none(_, _, _, _)
request_f_properties_stops_at_none(fields, i, params, files) ==
    IF i > Len(fields) THEN [params |-> params, files |-> files]
    ELSE LET fileproperty == fields[i]
             r == replace_attach(params[fileproperty], fileproperty)
         IN IF r.ret.variant = "Some"
            THEN request_f_properties_stops_at_none(fields, i + 1,
                     [params EXCEPT ![fileproperty] = r.self],
                     Append(files, <<fileproperty, r.ret.value>>))
            ELSE [params |-> params, files |-> files]

\* The $( ... )+ repetition of request_f!, from property i on.
RECURSIVE request_f_properties(_, _, _, _)
request_f_properties(fields, i, params, files) ==
    IF i > Len(fields) THEN [params |-> params, files |-> files]
    ELSE LET fileproperty == fields[i]
             r == replace_attach(params[fileproperty], fileproperty)
         IN request_f_properties(fields, i + 1,
                [params EXCEPT ![fileproperty] = r.self],
                IF r.ret.variant = "Some"
                THEN Append(files, <<fileproperty, r.ret.value>>)
                ELSE files)

request_f(name, fields, caller_params) ==
    LET e == request_f_properties(fields, 1, caller_params, <<>>)
    IN Handler(e.params, e.files,
               request_with_possible_form_data(name, e.params, e.files))

\* Variant of the replace_attach! of send_media_group whose index is 1-based
\* (the length after the push instead of before it).
media_group_replace_attach_len_after(st, property) ==
    LET r == replace_attach_dyn(st.base[property], Len(st.files) + 1)
    IN [base |-> [st.base EXCEPT ![property] = r.self],
        files |-> IF r.ret.variant = "Some" THEN Append(st.files, r.ret.value)
                  ELSE st.files]

\* replace_attach! of send_media_group: $base.$property, naming by files.len()
media_group_replace_attach(st, property) ==
    LET r == replace_attach_dyn(st.base[property], Len(st.files))
    IN [base |-> [st.base EXCEPT ![property] = r.self],
        files |-> IF r.ret.variant = "Some" THEN Append(st.files, r.ret.value)
                  ELSE st.files]

\* Variant of the match of send_media_group whose Video arm visits the
\* thumbnail before the cover.
media_group_item_thumbnail_first(media, files) ==
    LET st == [base |-> media, files |-> files]
    IN CASE media.kind = "Audio" ->
              media_group_replace_attach(
                  media_group_replace_attach(st, "media"), "thumbnail")
         [] media.kind = "Document" -> media_group_replace_attach(st, "media")
         [] media.kind = "Photo" -> media_group_replace_attach(st, "media")
         [] media.kind = "Video" ->
              media_group_replace_attach(
                  media_group_replace_attach(
                      media_group_replace_attach(st, "media"), "thumbnail"), "cover")

\* the match of send_media_group on one item
media_group_item(media, files) ==
    LET st == [base |-> media, files |-> files]
    IN CASE media.kind = "Audio" ->
              media_group_replace_attach(
                  media_group_replace_attach(st, "media"), "thumbnail")
         [] media.kind = "Document" -> media_group_replace_attach(st, "media")
         [] media.kind = "Photo" -> media_group_replace_attach(st, "media")
         [] media.kind = "Video" ->
              media_group_replace_attach(
                  media_group_replace_attach(
                      media_group_replace_attach(st, "media"), "cover"), "thumbnail")

\* for media in &mut params.media, from item i on
RECURSIVE media_group_loop(_, _, _)
media_group_loop(media, i, files) ==
    IF i > Len(media) THEN [media |-> media, files |-> files]
    ELSE LET st == media_group_item(media[i], files)
         IN media_group_loop([media EXCEPT ![i] = st.base], i + 1, st.files)

send_media_group(caller_params) ==
    LET e == media_group_loop(caller_params.media, 1, <<>>)
        params == [caller_params EXCEPT !.media = e.media]
    IN Handler(params, e.files,
               request_with_possible_form_data("sendMediaGroup", params, e.files))

\* Variant of the replace_attach! of edit_message_media that names the part
\* by the property alone.
edit_media_replace_attach_property_name(st, base, property) ==
    LET NAME == base \o "_" \o property
        r == replace_attach(st.base[property], NAME)
    IN [base |-> [st.base EXCEPT ![property] = r.self],
        files |-> IF r.ret.variant = "Some"
                  THEN Append(st.files, <<property, r.ret.value>>)
                  ELSE st.files]

\* Variant of the replace_attach! of edit_message_media that names every part
\* by the base alone.
edit_media_replace_attach_base_name(st, base, property) ==
    LET NAME == base
        r == replace_attach(st.base[property], NAME)
    IN [base |-> [st.base EXCEPT ![property] = r.self],
        files |-> IF r.ret.variant = "Some" THEN Append(st.files, <<NAME, r.ret.value>>)
                  ELSE st.files]

\* replace_attach! of edit_message_media: NAME = "<base>_<property>"
edit_media_replace_attach(st, base, property) ==
    LET NAME == base \o "_" \o property
        r == replace_attach(st.base[property], NAME)
    IN [base |-> [st.base EXCEPT ![property] = r.self],
        files |-> IF r.ret.variant = "Some" THEN Append(st.files, <<NAME, r.ret.value>>)
                  ELSE st.files]

edit_message_media(caller_params) ==
    LET media == caller_params.media
        st == [base |-> media, files |-> <<>>]
        e == CASE media.kind = "Animation" ->
                    edit_media_replace_attach(
                        edit_media_replace_attach(st, "animation", "media"),
                        "animation", "thumbnail")
               [] media.kind = "Document" ->
                    edit_media_replace_attach(
                        edit_media_replace_attach(st, "document", "media"),
                        "document", "thumbnail")
               [] media.kind = "Audio" ->
                    edit_media_replace_attach(
                        edit_media_replace_attach(st, "audio", "media"),
                        "audio", "thumbnail")
               [] media.kind = "Photo" ->
                    edit_media_replace_attach(st, "photo", "media")
               [] media.kind = "Video" ->
                    edit_media_replace_attach(
                        edit_media_replace_attach(
                            edit_media_replace_attach(st, "video", "media"),
                            "video", "cover"),
                        "video", "thumbnail")
        params == [caller_params EXCEPT !.media = e.base]
    IN Handler(params, e.files,
               request_with_possible_form_data("editMessageMedia", params, e.files))

\* for (index, sticker) in params.stickers.iter_mut().enumerate()
\* (i is the 1-based position; enumerate() counts from 0)
RECURSIVE sticker_set_loop(_, _, _)
sticker_set_loop(stickers, i, files) ==
    IF i > Len(stickers) THEN [stickers |-> stickers, files |-> files]
    ELSE LET index == i - 1
             r == replace_attach_dyn(stickers[i].sticker, index)
         IN sticker_set_loop([stickers EXCEPT ![i].sticker = r.self], i + 1,
                IF r.ret.variant = "Some" THEN Append(files, r.ret.value) ELSE files)

create_new_sticker_set(caller_params) ==
    LET e == sticker_set_loop(caller_params.stickers, 1, <<>>)
        params == [caller_params EXCEPT !.stickers = e.stickers]
    IN Handler(params, e.files,
               request_with_possible_form_data("createNewStickerSet", params, e.files))

add_sticker_to_set(caller_params) ==
    LET r == replace_attach(caller_params.sticker.sticker, "sticker_upload")
        params == [caller_params EXCEPT !.sticker.sticker = r.self]
        files == IF r.ret.variant = "Some" THEN <<<<"sticker_upload", r.ret.value>>>>
                 ELSE <<>>
    IN Handler(params, files,
               request_with_possible_form_data("addStickerToSet", params, files))

\* Variant of the branch extraction that collects the part and leaves the
\* field holding the file.
branch_replace_attach_keeps_field(content, property, name) ==
    LET r == replace_attach(content[property], name)
    IN [content |-> content,
        files |-> IF r.ret.variant = "Some" THEN <<<<name, r.ret.value>>>> ELSE <<>>]

\* A match with one extracted field per branch: the active branch's field
\* is extracted under the branch's name.
branch_replace_attach(content, property, name) ==
    LET r == replace_attach(content[property], name)
    IN [content |-> [content EXCEPT ![property] = r.self],
        files |-> IF r.ret.variant = "Some" THEN <<<<name, r.ret.value>>>> ELSE <<>>]

\* Variant of the match on the story content whose Video arm uses the name of
\* the Photo arm.
story_content_photo_name(content) ==
    CASE content.kind = "Photo" -> branch_replace_attach(content, "photo", "photo_content")
      [] content.kind = "Video" -> branch_replace_attach(content, "video", "photo_content")

\* post_story / edit_story: match &mut params.content
story_content(content) ==
    CASE content.kind = "Photo" -> branch_replace_attach(content, "photo", "photo_content")
      [] content.kind = "Video" -> branch_replace_attach(content, "video", "video_content")

post_story(caller_params) ==
    LET e == story_content(caller_params.content)
        params == [caller_params EXCEPT !.content = e.content]
    IN Handler(params, e.files,
               request_with_possible_form_data("postStory", params, e.files))

edit_story(caller_params) ==
    LET e == story_content(caller_params.content)
        params == [caller_params EXCEPT !.content = e.content]
    IN Handler(params, e.files,
               request_with_possible_form_data("editStory", params, e.files))

set_business_account_profile_photo(caller_params) ==
    LET photo == caller_params.photo
        e == CASE photo.kind = "Static" ->
                    branch_replace_attach(photo, "photo", "photo_static")
               [] photo.kind = "Animated" ->
                    branch_replace_attach(photo, "animation", "photo_animated")
        params == [caller_params EXCEPT !.photo = e.content]
    IN Handler(params, e.files,
               request_with_possible_form_data("setBusinessAccountProfilePhoto", params, e.files))

\* Variant of set_chat_photo that goes through the dispatcher with no part.
set_chat_photo_no_part(caller_params) ==
    LET params == caller_params
        files == <<>>
    IN Handler(params, files,
               request_with_possible_form_data("setChatPhoto", params, files))

\* The mandatory-file operations: the field is an InputFile, not a FileUpload.
set_chat_photo(caller_params) ==
    LET params == caller_params
        files == <<<<"photo", params.photo>>>>
    IN Handler(params, files, <<request_with_form_data("setChatPhoto", params, files)>>)

upload_sticker_file(caller_params) ==
    LET params == caller_params
        files == <<<<"sticker", params.sticker>>>>
    IN Handler(params, files,
               <<request_with_form_data("uploadStickerFile", params, files)>>)

\* ------------------------------------------------------------------ state
VARIABLES
    pc,            \* "idle", "replaced" (a HasInputFile call returned),
                   \* "serialized" (a serialize call returned),
                   \* "sent" (the transport was called), "returned"
    op,            \* the trait method that ran
    field_before,  \* HasInputFile call: the field before the call
    field_after,   \* HasInputFile call: the field after the call
    arg,           \* HasInputFile call: the name, or the value the closure yields
    ret,           \* HasInputFile call: the returned Option
    index_calls,   \* HasInputFile call: invocations of the index closure
    given,         \* operation: the parameter structure as the caller built it
    caller,        \* operation: the parameter structure behind &params
    params,        \* operation: its local params when it calls the transport
    files,         \* operation: its local files when it calls the transport
    calls,         \* operation: the transport calls made, in order
    result         \* operation: what the transport returned

vars == <<pc, op, field_before, field_after, arg, ret, index_calls, given, caller, params,
          files, calls, result>>

NoValue == [variant |-> "Unset"]

field_vars == <<field_before, field_after, arg, ret, index_calls>>
operation_vars == <<given, caller, params, files, calls, result>>

Init ==
    /\ pc = "idle"
    /\ op = "none"
    /\ field_before = NoValue
    /\ field_after = NoValue
    /\ arg = NoValue
    /\ ret = NoValue
    /\ index_calls = 0
    /\ given = NoValue
    /\ caller = NoValue
    /\ params = NoValue
    /\ files = <<>>
    /\ calls = <<>>
    /\ result = "none"

call_replace_attach ==
    /\ pc = "idle"
    /\ \E self \in FileUploads \cup OptFileUploads, name \in AttachNames :
          LET r == replace_attach(self, name)
          IN /\ field_before' = self
             /\ arg' = [name |-> name]
             /\ field_after' = r.self
             /\ ret' = r.ret
             /\ index_calls' = r.index_calls
    /\ op' = "replace_attach"
    /\ pc' = "replaced"
    /\ UNCHANGED operation_vars

call_replace_attach_dyn ==
    /\ pc = "idle"
    /\ \E self \in FileUploads \cup OptFileUploads, i \in 0..MaxIndex :
          LET r == replace_attach_dyn(self, i)
          IN /\ field_before' = self
             /\ arg' = [index |-> i]
             /\ field_after' = r.self
             /\ ret' = r.ret
             /\ index_calls' = r.index_calls
    /\ op' = "replace_attach_dyn"
    /\ pc' = "replaced"
    /\ UNCHANGED operation_vars

\* serde serializes a value that was not routed through an extraction: an
\* InputFile, or a FileUpload.
call_serialize ==
    /\ pc = "idle"
    /\ \E v \in SerializedValues :
          /\ field_before' = v
          /\ field_after' = v
          /\ ret' = [variant |-> "Ok", value |-> FieldJson(v)]
    /\ arg' = NoValue
    /\ index_calls' = 0
    /\ op' = "serialize"
    /\ pc' = "serialized"
    /\ UNCHANGED operation_vars

\* The caller's borrow of the field ends.
field_released ==
    /\ pc \in {"replaced", "serialized"}
    /\ pc' = "idle"
    /\ op' = "none"
    /\ field_before' = NoValue
    /\ field_after' = NoValue
    /\ arg' = NoValue
    /\ ret' = NoValue
    /\ index_calls' = 0
    /\ UNCHANGED operation_vars

\* Variant of an operation that extracts in the caller's structure instead of
\* in a clone of it.
Operation_extracts_in_place(name, p, h) ==
    /\ pc' = "sent"
    /\ op' = name
    /\ given' = p
    /\ caller' = h.params
    /\ params' = h.params
    /\ files' = h.files
    /\ calls' = h.calls
    /\ result' = "none"
    /\ UNCHANGED field_vars

\* An operation has run on the caller's structure p up to its transport call:
\* it works on params.clone(), the structure behind &params is not written.
Operation(name, p, h) ==
    /\ pc' = "sent"
    /\ op' = name
    /\ given' = p
    /\ caller' = p
    /\ params' = h.params
    /\ files' = h.files
    /\ calls' = h.calls
    /\ result' = "none"
    /\ UNCHANGED field_vars

call_request_f ==
    /\ pc = "idle"
    /\ \E m \in RequestFMethods : \E p \in FlatParams(m.fields) :
            Operation(m.name, p, request_f(m.name, m.fields, p))

call_send_media_group ==
    /\ pc = "idle"
    /\ \E media \in SeqsUpTo(MediaGroupInputMedia, MaxMedia) :
            LET p == [media |-> media]
            IN Operation("sendMediaGroup", p, send_media_group(p))

call_edit_message_media ==
    /\ pc = "idle"
    /\ \E media \in InputMedia :
            LET p == [media |-> media]
            IN Operation("editMessageMedia", p, edit_message_media(p))

call_create_new_sticker_set ==
    /\ pc = "idle"
    /\ \E stickers \in SeqsUpTo(InputSticker, MaxStickers) :
            LET p == [stickers |-> stickers]
            IN Operation("createNewStickerSet", p, create_new_sticker_set(p))

call_add_sticker_to_set ==
    /\ pc = "idle"
    /\ \E sticker \in InputSticker :
            LET p == [sticker |-> sticker]
            IN Operation("addStickerToSet", p, add_sticker_to_set(p))

call_post_story ==
    /\ pc = "idle"
    /\ \E content \in InputStoryContent :
            LET p == [content |-> content]
            IN Operation("postStory", p, post_story(p))

call_edit_story ==
    /\ pc = "idle"
    /\ \E content \in InputStoryContent :
            LET p == [content |-> content]
            IN Operation("editStory", p, edit_story(p))

call_set_business_account_profile_photo ==
    /\ pc = "idle"
    /\ \E photo \in InputProfilePhoto :
            LET p == [photo |-> photo]
            IN Operation("setBusinessAccountProfilePhoto", p,
                         set_business_account_profile_photo(p))

call_set_chat_photo ==
    /\ pc = "idle"
    /\ \E photo \in InputFiles :
            LET p == [photo |-> photo]
            IN Operation("setChatPhoto", p, set_chat_photo(p))

call_upload_sticker_file ==
    /\ pc = "idle"
    /\ \E sticker \in InputFiles :
            LET p == [sticker |-> sticker]
            IN Operation("uploadStickerFile", p, upload_sticker_file(p))

\* request / request_with_form_data return a Result to the operation, which
\* returns it to its caller.
transport_returns ==
    /\ pc = "sent"
    /\ pc' = "returned"
    /\ result' \in {"Ok", "Err"}
    /\ UNCHANGED <<op, given, caller, params, files, calls>>
    /\ UNCHANGED field_vars

\* The caller is done with the result and the parameter structure.
operation_done ==
    /\ pc = "returned"
    /\ pc' = "idle"
    /\ op' = "none"
    /\ given' = NoValue
    /\ caller' = NoValue
    /\ params' = NoValue
    /\ files' = <<>>
    /\ calls' = <<>>
    /\ result' = "none"
    /\ UNCHANGED field_vars

Next ==
    \/ call_replace_attach
    \/ call_replace_attach_dyn
    \/ call_serialize
    \/ field_released
    \/ call_request_f
    \/ call_send_media_group
    \/ call_edit_message_media
    \/ call_create_new_sticker_set
    \/ call_add_sticker_to_set
    \/ call_post_story
    \/ call_edit_story
    \/ call_set_business_account_profile_photo
    \/ call_set_chat_photo
    \/ call_upload_sticker_file
    \/ transport_returns
    \/ operation_done

Spec == Init /\ [][Next]_vars

\* =================================================================== claims
\* Does the field hold InputFile (directly, or inside Some)?
HoldsInputFile(v) == v.variant = "InputFile" \/ IsSomeInputFile(v)

\* The InputFile a field holds.
HeldFile(v) == IF v.variant = "Some" THEN v.value.file ELSE v.file

\* A field of the same type as v (FileUpload or Option<FileUpload>) holding
\* the reference string s.
StringLike(v, s) == IF IsOption(v) THEN Some(String(s)) ELSE String(s)

\* C1: replace_attach(n) on a field holding InputFile(f) (or Some(InputFile(f)))
\* returns Some(f) with f unchanged and leaves the field holding the string
\* "attach://" + n; the field no longer holds InputFile.
C1_ReplaceAttachMovesFile ==
    (pc = "replaced" /\ op = "replace_attach" /\ HoldsInputFile(field_before)) =>
        /\ ret = Some(HeldFile(field_before))
        /\ field_after = StringLike(field_before, "attach://" \o arg.name)
        /\ ~HoldsInputFile(field_after)

C1_Witness ==
    /\ pc = "replaced"
    /\ op = "replace_attach"
    /\ field_before = InputFile(Memory("demo.bin", <<1, 2, 3>>))
    /\ arg = [name |-> "demo"]
    /\ ret = Some(Memory("demo.bin", <<1, 2, 3>>))
    /\ field_after = String("attach://demo")

\* C2: replace_attach and replace_attach_dyn on a field holding String(s),
\* None or Some(String(s)) return None and leave the field unchanged.
C2_ReferenceFieldUntouched ==
    (pc = "replaced" /\ ~HoldsInputFile(field_before)) =>
        /\ ret = None
        /\ field_after = field_before

C2_Witness ==
    /\ pc = "replaced"
    /\ op = "replace_attach_dyn"
    /\ field_before = String("file_id_123")
    /\ field_after = String("file_id_123")
    /\ ret = None

\* C3: replace_attach_dyn invokes the index function exactly once when the
\* field holds InputFile and never otherwise; with result i the returned name
\* is "file" + i and the field becomes the string "attach://file" + i.
C3_IndexInvokedLazily ==
    (pc = "replaced" /\ op = "replace_attach_dyn") =>
        /\ index_calls = (IF HoldsInputFile(field_before) THEN 1 ELSE 0)
        /\ HoldsInputFile(field_before) =>
              /\ ret = Some(<<"file" \o ToString(arg.index), HeldFile(field_before)>>)
              /\ field_after =
                    StringLike(field_before, "attach://file" \o ToString(arg.index))

C3_Witness ==
    /\ pc = "replaced"
    /\ op = "replace_attach_dyn"
    /\ field_before = Some(InputFile(Memory("thumb.jpg", <<>>)))
    /\ arg = [index |-> 10]
    /\ index_calls = 1
    /\ ret = Some(<<"file10", Memory("thumb.jpg", <<>>)>>)
    /\ field_after = Some(String("attach://file10"))

\* ------------------------------------------------- operations: vocabulary
ExtractingOps ==
    {m.name : m \in RequestFMethods} \cup
    {"sendMediaGroup", "editMessageMedia", "createNewStickerSet", "addStickerToSet",
     "postStory", "editStory", "setBusinessAccountProfilePhoto"}

MandatoryFileOps == {"setChatPhoto", "uploadStickerFile"}

\* The file fields of one media item, in the order the operations visit them.
ItemFields(item) ==
    CASE item.kind \in {"Audio", "Animation"} -> <<item.media, item.thumbnail>>
      [] item.kind = "Document" ->
            IF "thumbnail" \in DOMAIN item THEN <<item.media, item.thumbnail>>
            ELSE <<item.media>>
      [] item.kind = "Photo" -> <<item.media>>
      [] item.kind = "Video" -> <<item.media, item.cover, item.thumbnail>>

RECURSIVE Flatten(_)
Flatten(seqs) == IF seqs = <<>> THEN <<>> ELSE Head(seqs) \o Flatten(Tail(seqs))

\* The values of the file fields operation o visits in structure p, in
\* visitation order.
Visited(o, p) ==
    CASE o = "sendMediaGroup" -> Flatten([i \in 1..Len(p.media) |-> ItemFields(p.media[i])])
      [] o = "editMessageMedia" -> ItemFields(p.media)
      [] o = "createNewStickerSet" -> [i \in 1..Len(p.stickers) |-> p.stickers[i].sticker]
      [] o = "addStickerToSet" -> <<p.sticker.sticker>>
      [] o \in {"postStory", "editStory"} ->
            IF p.content.kind = "Photo" THEN <<p.content.photo>> ELSE <<p.content.video>>
      [] o = "setBusinessAccountProfilePhoto" ->
            IF p.photo.kind = "Static" THEN <<p.photo.photo>> ELSE <<p.photo.animation>>
      [] o = "setChatPhoto" -> <<p.photo>>
      [] o = "uploadStickerFile" -> <<p.sticker>>
      [] OTHER -> LET fields == (CHOOSE m \in RequestFMethods : m.name = o).fields
                  IN [i \in 1..Len(fields) |-> p[fields[i]]]

\* The positions of a sequence of field values that hold InputFile, ascending.
RECURSIVE Holders(_, _)
Holders(fields, i) ==
    IF i > Len(fields) THEN <<>>
    ELSE (IF HoldsInputFile(fields[i]) THEN <<i>> ELSE <<>>) \o Holders(fields, i + 1)

\* The positions, among the fields operation o visits in p, of the fields its
\* parts come from: the one InputFile field of a mandatory-file operation, the
\* fields holding InputFile of any other.
PartSources(o, p) ==
    IF o \in MandatoryFileOps THEN <<1>> ELSE Holders(Visited(o, p), 1)

\* What the transport was handed.
SentParams == IF calls[1].fn = "request" THEN calls[1].params.value ELSE calls[1].params
SentFiles == IF calls[1].fn = "request" THEN <<>> ELSE calls[1].files

Multipart == pc = "sent" /\ Len(calls) = 1 /\ calls[1].fn = "request_with_form_data"

\* C4: after the extraction pass of a file-bearing operation no visited field
\* of the structure handed to the transport holds InputFile: each visited field
\* that held InputFile holds the string "attach://<name>", <name> being the
\* name of the part collected for it.
C4_NoVisitedFieldStaysPending ==
    (pc = "sent" /\ op \in ExtractingOps) =>
        LET before == Visited(op, caller)
            after == Visited(op, SentParams)
            held == Holders(before, 1)
        IN /\ Len(after) = Len(before)
           /\ Len(SentFiles) = Len(held)
           /\ \A i \in 1..Len(after) : ~HoldsInputFile(after[i])
           /\ \A k \in 1..Len(held) :
                 after[held[k]] =
                    StringLike(before[held[k]], "attach://" \o SentFiles[k][1])

C4_Witness ==
    /\ pc = "sent"
    /\ op = "editStory"
    /\ caller = [content |-> [kind |-> "Video", video |-> InputFile(Path("/tmp/a.png"))]]
    /\ SentParams = [content |-> [kind |-> "Video", video |-> String("attach://video_content")]]
    /\ SentFiles = <<<<"video_content", Path("/tmp/a.png")>>>>

\* C5: send_media_group on a media sequence with N fields holding InputFile
\* passes a part list of exactly N entries whose files are the displaced
\* InputFile values in visitation order (items in sequence order; within an
\* item media, then cover, then thumbnail).
C5_MediaGroupPartsInVisitOrder ==
    (pc = "sent" /\ op = "sendMediaGroup") =>
        LET before == Visited(op, caller)
            held == Holders(before, 1)
        IN /\ Len(SentFiles) = Len(held)
           /\ \A k \in 1..Len(held) : SentFiles[k][2] = HeldFile(before[held[k]])

C5_Witness ==
    /\ pc = "sent"
    /\ op = "sendMediaGroup"
    /\ Len(caller.media) = 2
    /\ caller.media[1] = [kind |-> "Video", media |-> InputFile(Path("/tmp/a.png")),
                          cover |-> Some(InputFile(Memory("cover.jpg", <<7>>))),
                          thumbnail |-> Some(InputFile(Memory("thumb.jpg", <<>>)))]
    /\ caller.media[2] = [kind |-> "Photo",
                          media |-> InputFile(Memory("demo.bin", <<1, 2, 3>>))]
    /\ SentFiles = << <<"file0", Path("/tmp/a.png")>>,
                      <<"file1", Memory("cover.jpg", <<7>>)>>,
                      <<"file2", Memory("thumb.jpg", <<>>)>>,
                      <<"file3", Memory("demo.bin", <<1, 2, 3>>)>> >>

\* C6: in every extraction pass of every operation the names of the part list
\* are pairwise distinct.
C6_PartNamesDistinct ==
    pc = "sent" =>
        \A j, k \in 1..Len(files) : files[j][1] = files[k][1] => j = k

C6_Witness ==
    /\ pc = "sent"
    /\ op = "editMessageMedia"
    /\ Len(files) = 3
    /\ files[1][1] = "video_media"
    /\ files[2][1] = "video_cover"
    /\ files[3][1] = "video_thumbnail"

\* C7 as stated: in send_media_group and create_new_sticker_set the k-th
\* produced part (counting from 0) is named "file" + k.
C7_Original ==
    (pc = "sent" /\ op \in {"sendMediaGroup", "createNewStickerSet"}) =>
        \A k \in 1..Len(files) : files[k][1] = "file" \o ToString(k - 1)

\* C7 as amended: in send_media_group the k-th produced part (counting from 0)
\* is named "file" + k, a visited field holding a reference string consuming
\* no index; in create_new_sticker_set the part produced by the sticker at
\* position i (counting from 0 over all stickers of the sequence) is named
\* "file" + i.
C7_IndexSequence ==
    /\ (pc = "sent" /\ op = "sendMediaGroup") =>
          \A k \in 1..Len(files) : files[k][1] = "file" \o ToString(k - 1)
    /\ (pc = "sent" /\ op = "createNewStickerSet") =>
          LET held == Holders(Visited(op, caller), 1)
          IN /\ Len(files) = Len(held)
             /\ \A k \in 1..Len(held) : files[k][1] = "file" \o ToString(held[k] - 1)

C7_Witness ==
    /\ pc = "sent"
    /\ op = "createNewStickerSet"
    /\ caller.stickers = << [sticker |-> String("file_id_123")],
                            [sticker |-> InputFile(Path("/tmp/a.png"))] >>
    /\ files = << <<"file1", Path("/tmp/a.png")>> >>
    /\ params.stickers[2].sticker = String("attach://file1")

\* C8: request_with_possible_form_data makes exactly one transport call:
\* request(method_name, Some(params)) iff the part list is empty, otherwise
\* request_with_form_data(method_name, params, files) with the same parts in
\* the same order; so an operation whose visited fields hold no InputFile is
\* sent as a plain call and one with an InputFile field as multipart.
C8_DispatchByPartList ==
    (pc = "sent" /\ op \in ExtractingOps) =>
        /\ Len(calls) = 1
        /\ (files = <<>>) <=> (calls[1].fn = "request")
        /\ (files = <<>>) =>
              calls[1] = [fn |-> "request", method |-> op, params |-> Some(params)]
        /\ (files # <<>>) =>
              calls[1] = [fn |-> "request_with_form_data", method |-> op,
                          params |-> params, files |-> files]
        /\ (calls[1].fn = "request") <=>
              (\A i \in 1..Len(Visited(op, caller)) :
                   ~HoldsInputFile(Visited(op, caller)[i]))

C8_Witness ==
    /\ pc = "sent"
    /\ op = "sendVideo"
    /\ caller = [video |-> String("file_id_123"), cover |-> None,
                 thumbnail |-> Some(String("file_id_123"))]
    /\ calls = <<[fn |-> "request", method |-> "sendVideo", params |-> Some(caller)]>>

\* C9 as stated: on the multipart path, for every part named n, the field it
\* came from has the JSON value "attach://n" in the parameter structure sent
\* with it, for every operation, set_chat_photo and upload_sticker_file
\* included.
C9_Original ==
    Multipart =>
        LET held == PartSources(op, caller)
            sent == Visited(op, SentParams)
        IN \A k \in 1..Len(SentFiles) :
              FieldJson(sent[held[k]]) = JsonString("attach://" \o SentFiles[k][1])

\* C9 as amended: on the multipart path of an operation that runs an extraction
\* pass, for every part named n, the field it came from has the JSON value
\* "attach://n" in the parameter structure sent with it; set_chat_photo and
\* upload_sticker_file run no extraction pass, their file field still holds the
\* InputFile and is encoded as JSON null.
C9_AttachTokenInJson ==
    /\ (Multipart /\ op \in ExtractingOps) =>
          LET held == PartSources(op, caller)
              sent == Visited(op, SentParams)
          IN /\ Len(held) = Len(SentFiles)
             /\ \A k \in 1..Len(SentFiles) :
                   FieldJson(sent[held[k]]) = JsonString("attach://" \o SentFiles[k][1])
    /\ (Multipart /\ op \in MandatoryFileOps) =>
          LET held == PartSources(op, caller)
              sent == Visited(op, SentParams)
          IN /\ Len(held) = Len(SentFiles)
             /\ \A k \in 1..Len(SentFiles) :
                   /\ sent[held[k]] = SentFiles[k][2]
                   /\ FieldJson(sent[held[k]]) = JsonNull

C9_Witness ==
    /\ Multipart
    /\ op = "editMessageMedia"
    /\ caller.media = [kind |-> "Animation", media |-> String("file_id_123"),
                       thumbnail |-> Some(InputFile(Memory("thumb.jpg", <<>>)))]
    /\ SentFiles = <<<<"animation_thumbnail", Memory("thumb.jpg", <<>>)>>>>
    /\ FieldJson(SentParams.media.thumbnail) = JsonString("attach://animation_thumbnail")

\* C10: set_chat_photo and upload_sticker_file never call the plain request
\* path: they call request_with_form_data exactly once with a part list of
\* exactly one entry, named "photo" (resp. "sticker"), carrying the file of the
\* parameter structure.
C10_MandatoryFileAlwaysMultipart ==
    /\ (pc = "sent" /\ op = "setChatPhoto") =>
          calls = <<[fn |-> "request_with_form_data", method |-> "setChatPhoto",
                     params |-> caller, files |-> <<<<"photo", caller.photo>>>>]>>
    /\ (pc = "sent" /\ op = "uploadStickerFile") =>
          calls = <<[fn |-> "request_with_form_data", method |-> "uploadStickerFile",
                     params |-> caller, files |-> <<<<"sticker", caller.sticker>>>>]>>

C10_Witness ==
    /\ pc = "sent"
    /\ op = "setChatPhoto"
    /\ caller = [photo |-> Memory("demo.bin", <<1, 2, 3>>)]
    /\ Len(calls) = 1
    /\ calls[1].fn = "request_with_form_data"
    /\ calls[1].files = <<<<"photo", Memory("demo.bin", <<1, 2, 3>>)>>>>

\* The parts a flat operation with the declared file properties fields yields
\* for structure p, from property i on: one per property holding InputFile,
\* named by the property, in declared order.
RECURSIVE DeclaredParts(_, _, _)
DeclaredParts(fields, p, i) ==
    IF i > Len(fields) THEN <<>>
    ELSE (IF HoldsInputFile(p[fields[i]])
          THEN << <<fields[i], HeldFile(p[fields[i]])>> >>
          ELSE <<>>) \o DeclaredParts(fields, p, i + 1)

\* C11: a flat operation generated by request_f visits every listed field in
\* declared order whether or not earlier fields produced a part: each field
\* holding InputFile yields a part named by the field identifier and becomes
\* "attach://<field identifier>", each field holding a reference string or
\* absent is left untouched and yields no part, and the part list keeps the
\* declared field order.
C11_FlatFieldsIndependent ==
    \A m \in RequestFMethods :
        (pc = "sent" /\ op = m.name) =>
            /\ \A i \in 1..Len(m.fields) :
                  LET f == m.fields[i]
                  IN IF HoldsInputFile(caller[f])
                     THEN params[f] = StringLike(caller[f], "attach://" \o f)
                     ELSE params[f] = caller[f]
            /\ files = DeclaredParts(m.fields, caller, 1)
            /\ SentParams = params
            /\ SentFiles = files

C11_Witness ==
    /\ pc = "sent"
    /\ op = "sendVideo"
    /\ caller = [video |-> InputFile(Memory("demo.bin", <<1, 2, 3>>)),
                 cover |-> Some(String("file_id_123")),
                 thumbnail |-> Some(InputFile(Memory("thumb.jpg", <<>>)))]
    /\ SentParams = [video |-> String("attach://video"),
                     cover |-> Some(String("file_id_123")),
                     thumbnail |-> Some(String("attach://thumbnail"))]
    /\ SentFiles = << <<"video", Memory("demo.bin", <<1, 2, 3>>)>>,
                      <<"thumbnail", Memory("thumb.jpg", <<>>)>> >>

\* C12: every operation extracts in a clone of its parameter structure: after
\* a file-bearing operation returns, with Ok or with a transport error, the
\* caller's structure equals its value before the call, every InputFile field
\* still holding its InputFile.
C12_CallerStructureUntouched ==
    pc = "returned" =>
        /\ caller = given
        /\ LET before == Visited(op, given)
               after == Visited(op, caller)
           IN /\ Len(after) = Len(before)
              /\ \A i \in 1..Len(before) :
                    HoldsInputFile(before[i]) =>
                        /\ HoldsInputFile(after[i])
                        /\ HeldFile(after[i]) = HeldFile(before[i])

C12_Witness ==
    /\ pc = "returned"
    /\ result = "Err"
    /\ op = "sendMediaGroup"
    /\ given = [media |-> <<[kind |-> "Photo", media |-> InputFile(Path("/tmp/a.png"))]>>]
    /\ caller = given
    /\ params = [media |-> <<[kind |-> "Photo", media |-> String("attach://file0")]>>]

\* Is v an InputFile, or a FileUpload holding one?
IsFileValue(v) == v.variant \in {"Path", "Memory", "InputFile"}

\* C13: serializing an InputFile directly always succeeds and yields JSON
\* null, for both variants and every path, file_name and data, so that any two
\* InputFile values serialize to the same output; a FileUpload holding
\* InputFile likewise serializes to null.
C13_InputFileSerializesAsNull ==
    (pc = "serialized" /\ IsFileValue(field_before)) =>
        /\ ret = [variant |-> "Ok", value |-> JsonNull]
        /\ \A f \in SerializedFiles :
              /\ InputFile_serialize(f) = ret.value
              /\ FileUpload_serialize(InputFile(f)) = ret.value

C13_Witness ==
    /\ pc = "serialized"
    /\ field_before = Memory("demo.bin", <<0, 1, 2, 3>>)
    /\ ret = [variant |-> "Ok", value |-> JsonNull]

TaggedUnionOps ==
    {"postStory", "editStory", "editMessageMedia", "setBusinessAccountProfilePhoto"}

\* The fixed part names of the active branch of structure p of tagged-union
\* operation o, one per field of Visited(o, p).
BranchNames(o, p) ==
    CASE o \in {"postStory", "editStory"} ->
            IF p.content.kind = "Photo" THEN <<"photo_content">> ELSE <<"video_content">>
      [] o = "setBusinessAccountProfilePhoto" ->
            IF p.photo.kind = "Static" THEN <<"photo_static">> ELSE <<"photo_animated">>
      [] o = "editMessageMedia" ->
            CASE p.media.kind = "Animation" -> <<"animation_media", "animation_thumbnail">>
              [] p.media.kind = "Document" -> <<"document_media", "document_thumbnail">>
              [] p.media.kind = "Audio" -> <<"audio_media", "audio_thumbnail">>
              [] p.media.kind = "Photo" -> <<"photo_media">>
              [] p.media.kind = "Video" -> <<"video_media", "video_cover", "video_thumbnail">>

\* The parts of a tagged-union operation are those of the fields of the active
\* branch that held InputFile, under the branch's fixed names.
BranchPartsOnly ==
    LET before == Visited(op, caller)
        names == BranchNames(op, caller)
        held == Holders(before, 1)
    IN /\ Len(names) = Len(before)
       /\ files = [k \in 1..Len(held) |-> <<names[held[k]], HeldFile(before[held[k]])>>]

\* C14 as stated: a tagged-union content operation extracts only fields of the
\* active branch under fixed branch-specific names and yields at most one
\* binary part per call.
C14_Original ==
    (pc = "sent" /\ op \in TaggedUnionOps) =>
        /\ BranchPartsOnly
        /\ Len(files) <= 1

\* C14 as amended: a tagged-union content operation extracts only fields of
\* the active branch under fixed branch-specific names; post_story, edit_story
\* and set_business_account_profile_photo yield at most one binary part per
\* call, edit_message_media yields at most one part per file field of the
\* active media kind (media and thumbnail, and cover for Video: up to three).
C14_ActiveBranchOnly ==
    (pc = "sent" /\ op \in TaggedUnionOps) =>
        /\ BranchPartsOnly
        /\ op # "editMessageMedia" => Len(files) <= 1
        /\ op = "editMessageMedia" => Len(files) <= Len(BranchNames(op, caller))
        /\ Len(files) <= 3

C14_Witness ==
    /\ pc = "sent"
    /\ op = "editMessageMedia"
    /\ caller.media = [kind |-> "Video", media |-> InputFile(Path("/tmp/a.png")),
                       cover |-> Some(InputFile(Memory("cover.jpg", <<7>>))),
                       thumbnail |-> Some(InputFile(Memory("thumb.jpg", <<>>)))]
    /\ files = << <<"video_media", Path("/tmp/a.png")>>,
                  <<"video_cover", Memory("cover.jpg", <<7>>)>>,
                  <<"video_thumbnail", Memory("thumb.jpg", <<>>)>> >>

\* The reference string a field holds ("" when it holds none).
FieldString(v) ==
    CASE v.variant = "String" -> v.s
      [] v.variant = "Some" /\ v.value.variant = "String" -> v.value.s
      [] OTHER -> ""

\* The names "file<k>" a pass over n fields can refer to.
IndexedNames(n) == {"file" \o ToString(k) : k \in 0..n}

\* C15: after the extraction pass of send_media_group and of
\* create_new_sticker_set the attach tokens in the visited fields and the part
\* list correspond one to one: each part name n is referenced as "attach://n"
\* by exactly one visited field, and every visited field holding a string
\* "attach://n" refers to a part named n of the list, also when the caller
\* supplied a reference string of the form "attach://file<k>".
C15_TokensMatchParts ==
    (pc = "sent" /\ op \in {"sendMediaGroup", "createNewStickerSet"}) =>
        LET sent == Visited(op, SentParams)
            names == {SentFiles[k][1] : k \in 1..Len(SentFiles)}
        IN /\ \A n \in names :
                Cardinality({i \in 1..Len(sent) : FieldString(sent[i]) = "attach://" \o n}) = 1
           /\ \A i \in 1..Len(sent) :
                \A n \in IndexedNames(Len(sent)) :
                    FieldString(sent[i]) = "attach://" \o n => n \in names

====
